---- MODULE Spec2Model ----
(***************************************************************************)
(* Model of the telemetry ingestion pipeline of ai-devops-platform:        *)
(* the Lambda handler of central-brain (authentication, body decoding,     *)
(* routing, storage in DynamoDB, MAD anomaly detection, Telegram alert)    *)
(* and the collection loop and health endpoint of edge-agent.              *)
(***************************************************************************)
EXTENDS Integers, Sequences, FiniteSets, TLC

(***************************************************************************)
(* Bounds of the model.                                                    *)
(***************************************************************************)
\* invocations of the handler in one behaviour of Spec
MaxInvocations == 1
\* deliveries of metrics batches in one behaviour of SpecStore
MaxRequests == 2
\* data points in a generated metrics batch
MaxBatch == 2
\* samples in a batch handed to detect_anomalies
MaxSamples == 4
\* iterations of the edge agent's collection loop in one behaviour of SpecAgent
MaxIterations == 3

(***************************************************************************)
(* State.                                                                  *)
(*   table, logs_table, traces_table  the three DynamoDB tables            *)
(*   telegram   TELEGRAM_BOT_TOKEN and TELEGRAM_CHAT_ID of the process     *)
(*   event      the event of the last invocation of handler                *)
(*   env        what the store and the Telegram endpoint did during it     *)
(*   result     its response and what it did                               *)
(*   prev       history of the invocation before it                        *)
(*   nreq       number of invocations so far                               *)
(*   batch, detected   argument and result of the last direct call of      *)
(*              detect_anomalies                                           *)
(* and of the edge agent:                                                  *)
(*   is_healthy     EdgeAgent.is_healthy                                   *)
(*   agent_pc       where run_loop stands                                  *)
(*   collected, k8s_state   the locals metrics and k8s_state of run_loop   *)
(*   last_send      what send_to_central_brain returned last               *)
(*   health         the last answer of GET /health                         *)
(*   agent_hist     history of the loop: iterations, failed collections,   *)
(*                  collections and sends that succeeded after a failure   *)
(***************************************************************************)
VARIABLES table, logs_table, traces_table, telegram, event, env, result, prev, nreq,
          batch, detected,
          is_healthy, agent_pc, collected, k8s_state, last_send, health, agent_hist

brainVars == <<table, logs_table, traces_table, telegram, event, env, result, prev, nreq,
               batch, detected>>
agentVars == <<is_healthy, agent_pc, collected, k8s_state, last_send, health, agent_hist>>
vars == <<brainVars, agentVars>>

(***************************************************************************)
(* Configuration (module level of central-brain/src/main.py).              *)
(***************************************************************************)
API_KEY == "dev-test-key-123"

\* Python's None, as returned by dict.get on a missing key.
None == "<None>"

\* The empty dict / empty attribute list.
NoAttrs == [k \in {} |-> ""]

\* dict.get(key, default)
Get(d, k, default) == IF k \in DOMAIN d THEN d[k] ELSE default

\* a dict with one entry
Attr(k, v) == [x \in {k} |-> v]

\* dict update: the entries of e are written over those of d
Update(d, e) == [k \in DOMAIN d \cup DOMAIN e |-> IF k \in DOMAIN e THEN e[k] ELSE d[k]]

\* str.endswith
EndsWith(s, suf) ==
    /\ Len(s) >= Len(suf)
    /\ SubSeq(s, Len(s) - Len(suf) + 1, Len(s)) = suf

\* the test  sub in s  on strings
Contains(s, sub) ==
    \E i \in 1..(Len(s) - Len(sub) + 1) : SubSeq(s, i, i + Len(sub) - 1) = sub

(***************************************************************************)
(* Request bodies.  A body is the text  layers(bytes(msg)) : msg is an     *)
(* OTLP export request (or bytes that are no protobuf message at all) and  *)
(* layers lists the transport encodings the sender applied, outermost      *)
(* first.  A message without resources serialises to zero bytes, so the    *)
(* body with no layers and no resources is the empty string.               *)
(***************************************************************************)
Garbage == [kind |-> "garbage", resources |-> <<>>]

IsEmptyStr(body) == body.layers = <<>> /\ body.msg.kind # "garbage" /\ body.msg.resources = <<>>

\* results of the decoding steps: ok is FALSE when the step raises
Ok(b) == [ok |-> TRUE, bytes |-> b]
Raise == [ok |-> FALSE, bytes |-> [layers |-> <<>>, msg |-> Garbage]]

\* base64.b64decode(body) / body.encode("utf-8")
DecodeBody(body, is_base64_encoded) ==
    IF ~is_base64_encoded THEN Ok(body)
    ELSE IF IsEmptyStr(body) THEN Ok(body)
    ELSE IF body.layers # <<>> /\ Head(body.layers) = "b64"
         THEN Ok([body EXCEPT !.layers = Tail(body.layers)])
    ELSE Raise

\* gzip.decompress(body_bytes); zero bytes decompress to zero bytes
Decompress(bytes) ==
    IF IsEmptyStr(bytes) THEN Ok(bytes)
    ELSE IF bytes.layers # <<>> /\ Head(bytes.layers) = "gzip"
         THEN Ok([bytes EXCEPT !.layers = Tail(bytes.layers)])
    ELSE Raise

\* <Request>.ParseFromString(body_bytes) for the request type of the route
ParseFromString(bytes, kind) ==
    IF bytes.layers = <<>> /\ bytes.msg.kind # "garbage"
       /\ (bytes.msg.kind = kind \/ bytes.msg.resources = <<>>)
    THEN [ok |-> TRUE, resources |-> bytes.msg.resources]
    ELSE [ok |-> FALSE, resources |-> <<>>]

(***************************************************************************)
(* _parse_otlp_metrics: resource -> scope -> metric -> data point,         *)
(* flattened in that order into Metric(metric=labels, value=[ts, value]).  *)
(***************************************************************************)
\* dp.time_unix_nano / 1e9 is a double: nanosecond stamps closer than the
\* spacing of doubles give the same float.  Stamps are counted in units of
\* half that spacing.
FloatSpacing == 2
NanoToSeconds(n) == n \div FloatSpacing

\* str(value) of a number: a text that float() reads back
Str(n) == [numeric |-> TRUE, n |-> n]

ParseDataPoint(dp, name, attributes) ==
    [metric |-> Update([k \in {"__name__", "job", "instance"} |->
                           CASE k = "__name__" -> name
                             [] k = "job" -> Get(attributes, "service.name", "unknown_job")
                             [] k = "instance" -> Get(attributes, "service.instance.id", "unknown_instance")],
                       dp.attributes),
     value |-> <<NanoToSeconds(dp.time_unix_nano), Str(dp.value)>>]

RECURSIVE ParseDataPoints(_, _, _)
ParseDataPoints(dps, name, attributes) ==
    IF dps = <<>> THEN <<>>
    ELSE <<ParseDataPoint(Head(dps), name, attributes)>>
         \o ParseDataPoints(Tail(dps), name, attributes)

\* only gauge and sum carry data points that are read
MetricDataPoints(metric_proto) ==
    IF metric_proto.data \in {"gauge", "sum"} THEN metric_proto.data_points ELSE <<>>

RECURSIVE ParseMetricProtos(_, _)
ParseMetricProtos(ms, attributes) ==
    IF ms = <<>> THEN <<>>
    ELSE ParseDataPoints(MetricDataPoints(Head(ms)), Head(ms).name, attributes)
         \o ParseMetricProtos(Tail(ms), attributes)

RECURSIVE ParseScopeMetrics(_, _)
ParseScopeMetrics(scopes, attributes) ==
    IF scopes = <<>> THEN <<>>
    ELSE ParseMetricProtos(Head(scopes), attributes)
         \o ParseScopeMetrics(Tail(scopes), attributes)

RECURSIVE _parse_otlp_metrics(_)
_parse_otlp_metrics(resource_metrics) ==
    IF resource_metrics = <<>> THEN <<>>
    ELSE ParseScopeMetrics(Head(resource_metrics).scopes, Head(resource_metrics).attributes)
         \o _parse_otlp_metrics(Tail(resource_metrics))

(***************************************************************************)
(* The tables.  A table is the set of its items, at most one per key;      *)
(* put_item replaces the item that has the same key.  The key attributes   *)
(* are the first two of each item: cluster_id is the partition key that    *)
(* scripts/explore_dynamodb.py queries by.                                 *)
(***************************************************************************)
MetricKey(item) == <<item.cluster_id, item.metric_identifier>>
LogKey(item) == <<item.cluster_id, item.timestamp>>
SpanKey(item) == <<item.trace_id, item.span_id>>

\* the key of an item of the metrics, logs or traces table
KeyOf(t, item) ==
    CASE t = "metrics" -> MetricKey(item)
      [] t = "logs" -> LogKey(item)
      [] t = "traces" -> SpanKey(item)

RECURSIVE PutAll(_, _, _)
PutAll(tbl, items, t) ==
    IF items = <<>> THEN tbl
    ELSE PutAll({x \in tbl : KeyOf(t, x) # KeyOf(t, Head(items))} \cup {Head(items)},
                Tail(items), t)

\* The batch writer buffers the put_item calls and flushes them when the
\* with block is left.  landed says how many of the buffered items the
\* store takes: "all", or "one" or "none" before the flush raises.
Flush(tbl, items, t, landed) ==
    LET n == CASE landed = "all" -> Len(items)
               [] landed = "one" -> IF Len(items) < 1 THEN Len(items) ELSE 1
               [] landed = "none" -> 0
    IN [tbl |-> PutAll(tbl, SubSeq(items, 1, n), t),
        raised |-> n < Len(items)]

(***************************************************************************)
(* _store_metrics_in_dynamodb                                              *)
(***************************************************************************)
\* the identifier with a part that is new in every invocation (a uuid, a
\* clock reading) instead of the index
MetricIdentifierPerInvocation(metric_name, instance, timestamp, i) ==
    metric_name \o "#" \o instance \o "#" \o ToString(timestamp) \o "#" \o ToString(i)
        \o "#" \o ToString(nreq)

\* the identifier without the index of the record
MetricIdentifierNoIndex(metric_name, instance, timestamp, i) ==
    metric_name \o "#" \o instance \o "#" \o ToString(timestamp)

\* f"{metric_name}#{instance}#{timestamp}#{i}"
MetricIdentifier(metric_name, instance, timestamp, i) ==
    metric_name \o "#" \o instance \o "#" \o ToString(timestamp) \o "#" \o ToString(i)

\* every metric filed under its job
MetricClusterIdJobOnly(labels, job) == job

\* cluster_id = metric.metric.get("cluster.id", job)
MetricClusterId(labels, job) == Get(labels, "cluster.id", job)

\* the item of the metric at index i of the batch (i counts from 0)
MetricItem(metric, i) ==
    LET metric_name == Get(metric.metric, "__name__", "unknown")
        job == Get(metric.metric, "job", "unknown")
        instance == Get(metric.metric, "instance", "unknown")
        timestamp == metric.value[1]
    IN [cluster_id |-> MetricClusterId(metric.metric, job),
        metric_identifier |-> MetricIdentifier(metric_name, instance, timestamp, i),
        metric_name |-> metric_name,
        job |-> job,
        instance |-> instance,
        timestamp |-> timestamp,
        value |-> metric.value[2],
        full_metric |-> metric.metric]

MetricItems(metrics) == [i \in 1..Len(metrics) |-> MetricItem(metrics[i], i - 1)]

\* result: the table, the items handed to put_item, whether the error
\* branch (logger.error, no re-raise) was taken
_store_metrics_in_dynamodb(tbl, metrics, landed) ==
    LET items == MetricItems(metrics)
        f == Flush(tbl, items, "metrics", landed)
    IN IF metrics = <<>>
       THEN [tbl |-> tbl, items |-> <<>>, error |-> FALSE]
       ELSE [tbl |-> f.tbl, items |-> items, error |-> f.raised]

(***************************************************************************)
(* _parse_and_store_logs_in_dynamodb                                       *)
(***************************************************************************)
LogItem(log_record, i, attributes) ==
    [cluster_id |-> Get(attributes, "cluster.id",
                        Get(attributes, "service.name", "unknown_cluster")),
     timestamp |-> log_record.time_unix_nano + i,
     job |-> Get(attributes, "service.name", "unknown_job"),
     instance |-> Get(attributes, "service.instance.id", "unknown_instance"),
     severity |-> log_record.severity_text,
     body |-> log_record.body]

\* enumerate(scope_log.log_records): i restarts at 0 in every scope
ScopeLogItems(log_records, attributes) ==
    [i \in 1..Len(log_records) |-> LogItem(log_records[i], i - 1, attributes)]

RECURSIVE ResourceLogItems(_, _)
ResourceLogItems(scopes, attributes) ==
    IF scopes = <<>> THEN <<>>
    ELSE ScopeLogItems(Head(scopes), attributes) \o ResourceLogItems(Tail(scopes), attributes)

RECURSIVE LogItems(_)
LogItems(resource_logs) ==
    IF resource_logs = <<>> THEN <<>>
    ELSE ResourceLogItems(Head(resource_logs).scopes, Head(resource_logs).attributes)
         \o LogItems(Tail(resource_logs))

_parse_and_store_logs_in_dynamodb(tbl, resource_logs, landed) ==
    LET items == LogItems(resource_logs)
        f == Flush(tbl, items, "logs", landed)
    IN [tbl |-> f.tbl, items |-> items, error |-> f.raised]

(***************************************************************************)
(* _parse_and_store_traces_in_dynamodb                                     *)
(***************************************************************************)
SpanItem(span, resource_attributes) ==
    [trace_id |-> span.trace_id,
     span_id |-> span.span_id,
     parent_span_id |-> span.parent_span_id,
     service_name |-> Get(resource_attributes, "service.name", "unknown_service"),
     span_name |-> span.name,
     start_time_unix_nano |-> span.start_time_unix_nano,
     end_time_unix_nano |-> span.end_time_unix_nano,
     duration_nano |-> span.end_time_unix_nano - span.start_time_unix_nano]

ScopeSpanItems(spans, resource_attributes) ==
    [i \in 1..Len(spans) |-> SpanItem(spans[i], resource_attributes)]

RECURSIVE ResourceSpanItems(_, _)
ResourceSpanItems(scopes, resource_attributes) ==
    IF scopes = <<>> THEN <<>>
    ELSE ScopeSpanItems(Head(scopes), resource_attributes)
         \o ResourceSpanItems(Tail(scopes), resource_attributes)

RECURSIVE SpanItems(_)
SpanItems(resource_spans) ==
    IF resource_spans = <<>> THEN <<>>
    ELSE ResourceSpanItems(Head(resource_spans).scopes, Head(resource_spans).attributes)
         \o SpanItems(Tail(resource_spans))

_parse_and_store_traces_in_dynamodb(tbl, resource_spans, landed) ==
    LET items == SpanItems(resource_spans)
        f == Flush(tbl, items, "traces", landed)
    IN [tbl |-> f.tbl, items |-> items, error |-> f.raised]

(***************************************************************************)
(* detect_anomalies.  Sample values are floats with integral values; the   *)
(* median of an even number of values may be a half, so medians are kept   *)
(* doubled (median2) and the MAD four-fold (mad4), which keeps the         *)
(* comparison |0.6745 * (val - median) / mad| > threshold exact.           *)
(***************************************************************************)
Coefficient10000 == 6745
Threshold10 == 35

Abs(x) == IF x < 0 THEN -x ELSE x

\* twice statistics.median(values)
Median2(values) ==
    LET s == SortSeq(values, LAMBDA a, b : a < b)
        n == Len(s)
    IN IF n % 2 = 1 THEN 2 * s[(n + 1) \div 2] ELSE s[n \div 2] + s[n \div 2 + 1]

MetricName(m) == Get(m.metric, "__name__", "unknown")

\* the keys of metrics_by_name, in insertion order
RECURSIVE MetricNames(_, _)
MetricNames(metrics, seen) ==
    IF metrics = <<>> THEN <<>>
    ELSE IF MetricName(Head(metrics)) \in seen
         THEN MetricNames(Tail(metrics), seen)
         ELSE <<MetricName(Head(metrics))>>
              \o MetricNames(Tail(metrics), seen \cup {MetricName(Head(metrics))})

\* the grouping that puts every metric of the batch into every group
MetricGroupWholeBatch(metrics, metric_name) == metrics

\* metrics_by_name[metric_name]
MetricGroup(metrics, metric_name) == SelectSeq(metrics, LAMBDA m : MetricName(m) = metric_name)

MakeAnomaly(metric_name, m) ==
    [metric_name |-> metric_name,
     instance |-> Get(m.metric, "instance", "unknown"),
     job |-> Get(m.metric, "job", "unknown"),
     value |-> m.value[2].n,
     timestamp |-> m.value[1]]

\* the test for the name  _total  itself instead of the suffix
IsCounterExact(metric_name) == metric_name = "_total"

\* if metric_name.endswith("_total")
IsCounter(metric_name) == EndsWith(metric_name, "_total")

\* the loop without the check of the MAD
ZeroMADUnchecked(mad4) == FALSE

\* if mad == 0
ZeroMAD(mad4) == mad4 = 0

\* the score without abs(): only values above the median are flagged
ExceedsThresholdAbove(val, median2, mad4) ==
    2 * Coefficient10000 * (2 * val - median2) * 10 > Threshold10 * 10000 * mad4

\* abs(0.6745 * (val - median) / mad) > threshold, for mad > 0
ExceedsThreshold(val, median2, mad4) ==
    2 * Coefficient10000 * Abs(2 * val - median2) * 10 > Threshold10 * 10000 * mad4

\* one pass of the loop over metrics_by_name.items(): ok is FALSE when
\* float(m.value[1]) raises ValueError
DetectGroup(metric_name, metric_group) ==
    LET values == [i \in 1..Len(metric_group) |-> metric_group[i].value[2].n]
        median2 == Median2(values)
        deviations2 == [i \in 1..Len(values) |-> Abs(2 * values[i] - median2)]
        mad4 == Median2(deviations2)
        IsAnomaly(m) == ExceedsThreshold(m.value[2].n, median2, mad4)
        flagged == SelectSeq(metric_group, IsAnomaly)
    IN IF IsCounter(metric_name) THEN [ok |-> TRUE, anomalies |-> <<>>]
       ELSE IF \E i \in 1..Len(metric_group) : ~metric_group[i].value[2].numeric
            THEN [ok |-> FALSE, anomalies |-> <<>>]
       ELSE IF Len(values) < 3 THEN [ok |-> TRUE, anomalies |-> <<>>]
       ELSE IF ZeroMAD(mad4) THEN [ok |-> TRUE, anomalies |-> <<>>]
       ELSE [ok |-> TRUE,
             anomalies |-> [i \in 1..Len(flagged) |-> MakeAnomaly(metric_name, flagged[i])]]

\* the loop over the groups: an exception in one pass leaves the function,
\* the passes after it do not run.  evaluated lists the groups whose pass
\* ran to its end, logged the anomalies already written to the log.
RECURSIVE DetectGroups(_, _)
DetectGroups(names, metrics) ==
    IF names = <<>> THEN [ok |-> TRUE, anomalies |-> <<>>, evaluated |-> <<>>]
    ELSE LET g == DetectGroup(Head(names), MetricGroup(metrics, Head(names)))
             rest == DetectGroups(Tail(names), metrics)
         IN IF ~g.ok THEN [ok |-> FALSE, anomalies |-> <<>>, evaluated |-> <<>>]
            ELSE [ok |-> rest.ok,
                  anomalies |-> g.anomalies \o rest.anomalies,
                  evaluated |-> <<Head(names)>> \o rest.evaluated]

\* logger.warning(f"Anomaly Detected: {anomaly}"), once per anomaly appended
AnomalyLog(anomalies) == [i \in DOMAIN anomalies |-> <<"warning", anomalies[i]>>]

\* result: ok is FALSE when the call raises; anomalies is the returned list
\* (what the log holds when it raises)
detect_anomalies(metrics) == DetectGroups(MetricNames(metrics, {}), metrics)

(***************************************************************************)
(* send_telegram_alert.  http is what the POST to the Telegram endpoint    *)
(* does: "ok", "request_error" (httpx.RequestError), "status_error"        *)
(* (raise_for_status) or "other_error" (any other exception in the with    *)
(* block).                                                                 *)
(***************************************************************************)
HttpOutcomes == {"ok", "request_error", "status_error", "other_error"}

\* the message lists the anomalies grouped by metric name
RECURSIVE AnomalyNames(_, _)
AnomalyNames(anomalies, seen) ==
    IF anomalies = <<>> THEN <<>>
    ELSE IF Head(anomalies).metric_name \in seen
         THEN AnomalyNames(Tail(anomalies), seen)
         ELSE <<Head(anomalies).metric_name>>
              \o AnomalyNames(Tail(anomalies), seen \cup {Head(anomalies).metric_name})

BuildMessage(anomalies) ==
    LET names == AnomalyNames(anomalies, {})
    IN [i \in 1..Len(names) |->
           [metric |-> names[i],
            lines |-> SelectSeq(anomalies, LAMBDA a : a.metric_name = names[i])]]

\* the POST without the clause  except Exception
AlertCaughtRequestErrorOnly(http) == http \in {"ok", "request_error"}

\* the except clauses of the POST: every exception is logged, none leaves
AlertCaught(http) == http \in {"ok", "request_error", "status_error", "other_error"}

\* the check that skips only when both settings are missing
NotConfiguredBoth(cfg) == cfg.bot_token \in {None, ""} /\ cfg.chat_id \in {None, ""}

\* if not TELEGRAM_BOT_TOKEN or not TELEGRAM_CHAT_ID: an unset variable
\* (None) and an empty one count as missing
NotConfigured(cfg) == cfg.bot_token \in {None, ""} \/ cfg.chat_id \in {None, ""}

\* result: posts is the sequence of messages posted, raised whether an
\* exception leaves the function, log the entries written
send_telegram_alert(anomalies, cfg, http) ==
    IF NotConfigured(cfg)
    THEN [posts |-> <<>>, raised |-> FALSE,
          log |-> <<<<"warning", "telegram not configured">>>>]
    ELSE [posts |-> <<BuildMessage(anomalies)>>,
          raised |-> ~AlertCaught(http),
          log |-> IF http = "ok" THEN <<<<"info", "alert sent">>>>
                  ELSE IF AlertCaught(http) THEN <<<<"error", "alert failed">>>>
                  ELSE <<>>]

(***************************************************************************)
(* handler.  tbls holds the three tables; io holds what the surroundings   *)
(* do during this invocation: landed (how many buffered items the store    *)
(* takes), http (the Telegram POST), scan_ok (table.scan) and telegram     *)
(* (TELEGRAM_BOT_TOKEN, TELEGRAM_CHAT_ID).                                 *)
(***************************************************************************)
\* what one invocation did besides answering; log holds the entries about
\* anomalies and alerts
NoEffects ==
    [puts |-> [metrics |-> <<>>, logs |-> <<>>, traces |-> <<>>],
     parsed |-> FALSE,
     store_error |-> FALSE,
     detector |-> 0,
     anomalies |-> <<>>,
     dispatcher |-> 0,
     posts |-> <<>>,
     log |-> <<>>,
     steps |-> <<>>]

Respond(status, tbls, fx) ==
    [status |-> status, tables |-> tbls,
     effects |-> [fx EXCEPT !.steps = @ \o <<"response">>]]

\* the check without the comparison with API_KEY
ForbiddenWhenMissing(api_key_header) ==
    api_key_header = None \/ api_key_header = ""

\* if not api_key_header or api_key_header != API_KEY: 403
Forbidden(api_key_header) ==
    api_key_header = None \/ api_key_header = "" \/ api_key_header # API_KEY

\* the routes without the check  if not body
EmptyBodyUnchecked(body) == FALSE

\* the check  if not body  of the three OTLP routes
EmptyBody(body) == IsEmptyStr(body)

\* status of the outer  except Exception  of handler
DecodeFailureStatus == 500

\* the dispatcher called after every detection
ShouldAlertAlways(anomalies) == TRUE

\* if anomalies: send_telegram_alert(anomalies)
ShouldAlert(anomalies) == anomalies # <<>>

\* the /v1/metrics branch after the empty-body check
HandleMetrics(body_bytes, tbls, io) ==
    LET req == ParseFromString(body_bytes, "metrics")
        parsed_metrics == _parse_otlp_metrics(req.resources)
        st == _store_metrics_in_dynamodb(tbls.metrics, parsed_metrics, io.landed)
        det == detect_anomalies(parsed_metrics)
        alert == send_telegram_alert(det.anomalies, io.telegram, io.http)
        tbls1 == [tbls EXCEPT !.metrics = st.tbl]
        fx1 == [NoEffects EXCEPT !.parsed = TRUE, !.steps = <<"decode">>]
        fx2 == [fx1 EXCEPT !.puts.metrics = st.items, !.store_error = st.error,
                           !.steps = @ \o <<"store">>]
        fx3 == [fx2 EXCEPT !.detector = 1, !.steps = @ \o <<"detect">>]
        fx4 == [fx3 EXCEPT !.anomalies = det.anomalies, !.log = AnomalyLog(det.anomalies)]
        fx5 == [fx4 EXCEPT !.dispatcher = 1, !.posts = alert.posts,
                           !.log = @ \o alert.log, !.steps = @ \o <<"alert">>]
    IN IF ~req.ok THEN Respond(DecodeFailureStatus, tbls, fx1)
       ELSE IF ~det.ok THEN Respond(500, tbls1, fx3)
       ELSE IF ~ShouldAlert(det.anomalies) THEN Respond(200, tbls1, fx4)
       ELSE IF alert.raised THEN Respond(500, tbls1, fx5)
       ELSE Respond(200, tbls1, fx5)

\* the /v1/logs branch after the empty-body check
HandleLogs(body_bytes, tbls, io) ==
    LET req == ParseFromString(body_bytes, "logs")
        st == _parse_and_store_logs_in_dynamodb(tbls.logs, req.resources, io.landed)
        fx1 == [NoEffects EXCEPT !.parsed = TRUE, !.steps = <<"decode">>]
        fx2 == [fx1 EXCEPT !.puts.logs = st.items, !.store_error = st.error,
                           !.steps = @ \o <<"store">>]
    IN IF ~req.ok THEN Respond(DecodeFailureStatus, tbls, fx1)
       ELSE Respond(200, [tbls EXCEPT !.logs = st.tbl], fx2)

\* the /v1/traces branch after the empty-body check
HandleTraces(body_bytes, tbls, io) ==
    LET req == ParseFromString(body_bytes, "traces")
        st == _parse_and_store_traces_in_dynamodb(tbls.traces, req.resources, io.landed)
        fx1 == [NoEffects EXCEPT !.parsed = TRUE, !.steps = <<"decode">>]
        fx2 == [fx1 EXCEPT !.puts.traces = st.items, !.store_error = st.error,
                           !.steps = @ \o <<"store">>]
    IN IF ~req.ok THEN Respond(DecodeFailureStatus, tbls, fx1)
       ELSE Respond(200, [tbls EXCEPT !.traces = st.tbl], fx2)

\* the routing chain of handler, entered with the decoded body
Route(ev, body_bytes, tbls, io) ==
    LET path == ev.rawPath
        body == ev.body
    IN IF Contains(path, "/v1/metrics")
       THEN IF EmptyBody(body) THEN Respond(400, tbls, NoEffects)
            ELSE HandleMetrics(body_bytes, tbls, io)
       ELSE IF Contains(path, "/v1/logs")
       THEN IF EmptyBody(body) THEN Respond(400, tbls, NoEffects)
            ELSE HandleLogs(body_bytes, tbls, io)
       ELSE IF Contains(path, "/v1/traces")
       THEN IF EmptyBody(body) THEN Respond(400, tbls, NoEffects)
            ELSE HandleTraces(body_bytes, tbls, io)
       ELSE IF Contains(path, "/data") /\ ev.method = "GET"
       THEN IF io.scan_ok THEN Respond(200, tbls, NoEffects)
            ELSE Respond(500, tbls, NoEffects)
       ELSE Respond(404, tbls, NoEffects)

handler(ev, tbls, io) ==
    LET api_key_header == Get(ev.headers, "x-api-key", None)
        decoded == DecodeBody(ev.body, ev.isBase64Encoded)
        gzipped == Get(ev.headers, "content-encoding", None) = "gzip"
        body_bytes == IF gzipped THEN Decompress(decoded.bytes) ELSE decoded
    IN IF Forbidden(api_key_header) THEN Respond(403, tbls, NoEffects)
       ELSE IF ~decoded.ok THEN Respond(DecodeFailureStatus, tbls, NoEffects)
       ELSE IF ~body_bytes.ok THEN Respond(DecodeFailureStatus, tbls, NoEffects)
       ELSE Route(ev, body_bytes.bytes, tbls, io)

(***************************************************************************)
(* Inputs: OTLP export requests.                                           *)
(***************************************************************************)
DataPoint(t, v, attrs) == [time_unix_nano |-> t, value |-> v, attributes |-> attrs]
MetricProto(name, data, dps) == [name |-> name, data |-> data, data_points |-> dps]
Resource(attrs, scopes) == [attributes |-> attrs, scopes |-> scopes]
LogRecord(t, sev, body) == [time_unix_nano |-> t, severity_text |-> sev, body |-> body]
Span(trace, id, parent, name, start, end) ==
    [trace_id |-> trace, span_id |-> id, parent_span_id |-> parent, name |-> name,
     start_time_unix_nano |-> start, end_time_unix_nano |-> end]
Msg(kind, resources) == [kind |-> kind, resources |-> resources]
Body(layers, msg) == [layers |-> layers, msg |-> msg]

\* the empty string
EmptyStr == Body(<<>>, Msg("metrics", <<>>))

ServiceAttrs == Update(Attr("service.name", "svc"), Attr("service.instance.id", "a"))

\* sequences over S of length 0..n
SeqsUpTo(S, n) == UNION {[1..k -> S] : k \in 0..n}

\* generated metrics batches: one resource, one scope, one gauge whose data
\* points differ in a label (pod) and the value, or in the instance and the
\* time stamp
StoreDataPoints ==
    {DataPoint(4, 1, Attr("pod", "x")),
     DataPoint(4, 2, Attr("pod", "y")),
     DataPoint(8, 1, Update(Attr("pod", "x"), Attr("instance", "b")))}

StoreMessages ==
    {Msg("metrics", <<Resource(ServiceAttrs, <<<<MetricProto("cpu_pct", "gauge", dps)>>>>)>>) :
        dps \in SeqsUpTo(StoreDataPoints, MaxBatch)}

\* three samples 1, 2, 100 of one gauge: 100 is an anomaly
Outlier(name, data) ==
    MetricProto(name, data,
        <<DataPoint(4, 1, NoAttrs), DataPoint(4, 2, Attr("cluster.id", "c1")),
          DataPoint(5, 100, Attr("instance", "b"))>>)

MetricsNoRecords == Msg("metrics", <<Resource(ServiceAttrs, <<>>)>>)
MetricsOutlier == Msg("metrics", <<Resource(ServiceAttrs, <<<<Outlier("cpu_pct", "gauge")>>>>)>>)
MetricsQuiet ==
    Msg("metrics", <<Resource(NoAttrs,
        <<<<MetricProto("cpu_pct", "gauge",
                <<DataPoint(4, 1, NoAttrs), DataPoint(4, 1, NoAttrs), DataPoint(4, 1, NoAttrs)>>),
            Outlier("req_total", "sum"),
            MetricProto("hist", "histogram", <<DataPoint(4, 7, NoAttrs)>>)>>>>)>>)
MetricsTwoGroups ==
    Msg("metrics", <<Resource(ServiceAttrs, <<<<Outlier("cpu_pct", "gauge")>>>>),
                     Resource(Attr("service.name", "other"), <<<<Outlier("mem_pct", "gauge")>>>>)>>)

\* a resource that names its cluster; data points that name a job, a
\* cluster, or neither
MetricsOwnLabels ==
    Msg("metrics", <<Resource(Update(ServiceAttrs, Attr("cluster.id", "rc")),
        <<<<MetricProto("cpu_pct", "gauge",
                <<DataPoint(4, 1, Attr("job", "j")),
                  DataPoint(4, 1, Attr("cluster.id", "c2")),
                  DataPoint(4, 1, NoAttrs)>>)>>>>)>>)

MetricsMessages ==
    {MetricsNoRecords, MetricsOutlier, MetricsQuiet, MetricsTwoGroups, MetricsOwnLabels}

LogsOrdered ==
    Msg("logs", <<Resource(ServiceAttrs, <<<<LogRecord(5, "INFO", "a"), LogRecord(7, "WARN", "b")>>>>)>>)
LogsReversed ==
    Msg("logs", <<Resource(Attr("cluster.id", "c1"),
                           <<<<LogRecord(6, "INFO", "a"), LogRecord(5, "INFO", "b")>>>>)>>)
LogsTwoScopes ==
    Msg("logs", <<Resource(NoAttrs, <<<<LogRecord(5, "INFO", "a")>>, <<LogRecord(5, "INFO", "b")>>>>)>>)

\* two resources of different clusters in one request
LogsTwoClusters ==
    Msg("logs", <<Resource(Update(ServiceAttrs, Attr("cluster.id", "c1")),
                           <<<<LogRecord(5, "INFO", "a")>>>>),
                  Resource(Attr("service.name", "other"), <<<<LogRecord(6, "INFO", "b")>>>>)>>)

LogsMessages == {LogsOrdered, LogsReversed, LogsTwoScopes, LogsTwoClusters}

TracesOne ==
    Msg("traces", <<Resource(ServiceAttrs, <<<<Span("t1", "s1", "", "root", 1, 4)>>>>)>>)
TracesTwo ==
    Msg("traces", <<Resource(NoAttrs,
        <<<<Span("t1", "s1", "", "root", 1, 4), Span("t1", "s2", "s1", "child", 2, 3)>>>>)>>)

TracesMessages == {TracesOne, TracesTwo}

(***************************************************************************)
(* Inputs: events of the Lambda function URL / HTTP API.                   *)
(***************************************************************************)
Event(headers, path, method, body, b64) ==
    [headers |-> headers, rawPath |-> path, method |-> method, body |-> body,
     isBase64Encoded |-> b64]

ValidKey == Attr("x-api-key", API_KEY)
\* no key, an empty key, a wrong key, the key under a name of another case
BadKeys == {NoAttrs, Attr("x-api-key", ""), Attr("x-api-key", "wrong-key"),
            Attr("X-API-KEY", API_KEY)}
Gzip == Attr("content-encoding", "gzip")
Encodings == {NoAttrs, Gzip}

PinnedPaths == {"/v1/metrics", "/v1/logs", "/v1/traces"}
Paths == PinnedPaths \cup {"/prod/v1/metrics", "/ingest", "/data"}

PinnedMessage(path) ==
    CASE path = "/v1/metrics" -> MetricsOutlier
      [] path = "/v1/logs" -> LogsOrdered
      [] path = "/v1/traces" -> TracesOne

LayerChoices == {<<>>, <<"gzip">>, <<"b64">>, <<"b64", "gzip">>}

\* requests without the configured key
UnauthorizedEvents ==
    {Event(Update(k, enc), path, "POST", body, b64) :
        k \in BadKeys, enc \in Encodings, path \in Paths,
        body \in {EmptyStr, Body(<<>>, MetricsOutlier)}, b64 \in {FALSE}}
    \cup {Event(k, "/v1/logs", "POST", Body(<<"b64">>, LogsOrdered), TRUE) : k \in BadKeys}

\* authorized requests with an empty body
EmptyEvents ==
    {Event(Update(ValidKey, enc), path, "POST", EmptyStr, b64) :
        enc \in Encodings, path \in Paths, b64 \in BOOLEAN}

\* authorized requests on the OTLP routes, in every transport encoding,
\* announced or not, and bodies that are no protobuf message
EncodedEvents ==
    {Event(Update(ValidKey, enc), path, "POST", Body(layers, PinnedMessage(path)), b64) :
        enc \in Encodings, path \in PinnedPaths, layers \in LayerChoices, b64 \in BOOLEAN}
    \cup {Event(ValidKey, path, "POST", Body(<<>>, Garbage), FALSE) : path \in PinnedPaths}

\* authorized, plainly encoded OTLP requests
PlainEvents ==
    {Event(ValidKey, path, "POST", Body(<<>>, m), FALSE) :
        path \in {"/v1/metrics", "/prod/v1/metrics"}, m \in MetricsMessages}
    \cup {Event(ValidKey, "/v1/logs", "POST", Body(<<>>, m), FALSE) : m \in LogsMessages}
    \cup {Event(ValidKey, "/v1/traces", "POST", Body(<<>>, m), FALSE) : m \in TracesMessages}

\* authorized requests on the other paths
OtherEvents ==
    {Event(ValidKey, path, method, Body(<<>>, MetricsOutlier), FALSE) :
        path \in {"/ingest", "/data"}, method \in {"GET", "POST"}}

Events == UnauthorizedEvents \cup EmptyEvents \cup EncodedEvents \cup PlainEvents \cup OtherEvents

\* authorized metrics requests carrying the generated batches
StoreEvents == {Event(ValidKey, "/v1/metrics", "POST", Body(<<>>, m), FALSE) : m \in StoreMessages}

\* what the store, the Telegram endpoint and the scan do during one invocation
Env(landed, http, scan_ok) == [landed |-> landed, http |-> http, scan_ok |-> scan_ok]
Envs ==
    {Env(l, "ok", TRUE) : l \in {"all", "one", "none"}}
    \cup {Env("all", h, TRUE) : h \in HttpOutcomes}
    \cup {Env("none", "other_error", TRUE), Env("all", "ok", FALSE)}
StoreEnvs == {Env(l, "ok", TRUE) : l \in {"all", "one", "none"}}
Calm == Env("all", "ok", TRUE)
Hostile == Env("none", "other_error", FALSE)

\* the requests of Spec: every event with the surroundings at their best and
\* at their worst, the plainly encoded OTLP requests with all of Envs
Requests ==
    (Events \X {Calm, Hostile}) \cup (PlainEvents \X Envs)

\* TELEGRAM_BOT_TOKEN and TELEGRAM_CHAT_ID: os.getenv gives None when unset
TelegramConfigs ==
    {[bot_token |-> "token", chat_id |-> "chat"],
     [bot_token |-> None, chat_id |-> "chat"],
     [bot_token |-> "token", chat_id |-> None],
     [bot_token |-> "", chat_id |-> "chat"]}

(***************************************************************************)
(* Inputs of the direct calls of detect_anomalies: Metric objects whose    *)
(* value text may be one that float() rejects.                             *)
(***************************************************************************)
NotNumber == [numeric |-> FALSE, n |-> 0]

Samples ==
    {[metric |-> Attr("__name__", name), value |-> <<1, v>>] :
        name \in {"cpu_pct", "mem_pct", "req_total"},
        v \in {Str(1), Str(2), Str(100), NotNumber}}

\* a batch of samples of one metric with the given values
Scenario(name, values) ==
    [i \in 1..Len(values) |->
        [metric |-> Update(Attr("__name__", name), Attr("instance", "a")),
         value |-> <<i, Str(values[i])>>]]

\* one outlier above, one below, more than half of the values equal, all
\* values equal, a counter with an outlier, and a batch of several groups
CpuOutlier == Scenario("cpu_pct", <<10, 11, 9, 10, 200>>)
CpuDip == Scenario("cpu_pct", <<100, 99, 101, 100, 1>>)
CpuDegenerate == Scenario("cpu_pct", <<1, 1, 1, 1, 50>>)
CpuFlat == Scenario("cpu_pct", <<7, 7, 7>>)
CounterOutlier == Scenario("req_total", <<10, 11, 9, 10, 200>>)
Mixed == CpuOutlier \o CounterOutlier \o Scenario("mem_pct", <<1, 900>>)

Scenarios == {CpuOutlier, CpuDip, CpuDegenerate, CpuFlat, CounterOutlier, Mixed}

Batches == SeqsUpTo(Samples, MaxSamples) \cup Scenarios

(***************************************************************************)
(* The edge agent (edge-agent/src/main.py): the collection loop run_loop   *)
(* and the handler of GET /health, which runs between the awaits of the    *)
(* loop.                                                                   *)
(***************************************************************************)
\* what await get_selected_metrics(...) does: it returns data points, returns
\* none, or raises
CollectOutcomes == {"some", "none", "fail"}

\* what get_cluster_state returns: it catches its own exceptions
NoState == [nodes |-> <<>>, pods |-> <<>>, deployments |-> <<>>]
ClusterStates == {NoState, [NoState EXCEPT !.nodes = <<"n1">>], [NoState EXCEPT !.pods = <<"p1">>]}

\* what send_to_central_brain returns: TRUE after a 2xx answer; FALSE when
\* CENTRAL_API_URL is unset, the request fails or the answer is 4xx or 5xx
SendResults == BOOLEAN

\* collect_metrics that marks the agent healthy again when it succeeds
HealthAfterCollectReset(outcome, healthy) == outcome # "fail"

\* is_healthy after collect_metrics: set to False in the except branch and
\* written nowhere else
HealthAfterCollect(outcome, healthy) == IF outcome = "fail" THEN FALSE ELSE healthy

NoAnswer == [status |-> 0, failures |-> 0]
NoHistory == [iterations |-> 0, failures |-> 0, recovered |-> 0, sends |-> 0]

\* EdgeAgent.__init__ and the start of run_loop
AgentInit ==
    /\ is_healthy = TRUE
    /\ agent_pc = "collect"
    /\ collected = <<>>
    /\ k8s_state = NoState
    /\ last_send = FALSE
    /\ health = NoAnswer
    /\ agent_hist = NoHistory

\* metrics = await self.collect_metrics()
Collect ==
    /\ agent_pc = "collect"
    /\ agent_hist.iterations < MaxIterations
    /\ \E outcome \in CollectOutcomes :
          /\ is_healthy' = HealthAfterCollect(outcome, is_healthy)
          /\ collected' = IF outcome = "some" THEN <<"up">> ELSE <<>>
          /\ agent_hist' = [agent_hist EXCEPT
                !.iterations = @ + 1,
                !.failures = IF outcome = "fail" THEN @ + 1 ELSE @,
                !.recovered = IF outcome # "fail" /\ agent_hist.failures > 0 THEN @ + 1 ELSE @]
    /\ agent_pc' = "k8s"
    /\ UNCHANGED <<k8s_state, last_send, health>>
    /\ UNCHANGED brainVars

\* k8s_state = await self.kubernetes.get_cluster_state()
ClusterState ==
    /\ agent_pc = "k8s"
    /\ k8s_state' \in ClusterStates
    /\ agent_pc' = "send"
    /\ UNCHANGED <<is_healthy, collected, last_send, health, agent_hist>>
    /\ UNCHANGED brainVars

\* the send is skipped when nothing was collected
NothingCollected ==
    /\ collected = <<>>
    /\ k8s_state.nodes = <<>>
    /\ k8s_state.pods = <<>>
    /\ k8s_state.deployments = <<>>

\* the if/else of run_loop: skip, or await self.send_to_central_brain(payload)
Send ==
    /\ agent_pc = "send"
    /\ IF NothingCollected
       THEN UNCHANGED <<last_send, agent_hist>>
       ELSE \E sent \in SendResults :
               /\ last_send' = sent
               /\ agent_hist' = [agent_hist EXCEPT
                     !.sends = IF sent /\ agent_hist.failures > 0 THEN @ + 1 ELSE @]
    /\ agent_pc' = "sleep"
    /\ UNCHANGED <<is_healthy, collected, k8s_state, health>>
    /\ UNCHANGED brainVars

\* await asyncio.sleep(300), then the next iteration
Sleep ==
    /\ agent_pc = "sleep"
    /\ agent_pc' = "collect"
    /\ UNCHANGED <<is_healthy, collected, k8s_state, last_send, health, agent_hist>>
    /\ UNCHANGED brainVars

\* GET /health: 200 when is_healthy, else HTTPException(503)
health_check ==
    /\ health' = [status |-> IF is_healthy THEN 200 ELSE 503,
                  failures |-> agent_hist.failures]
    /\ UNCHANGED <<is_healthy, agent_pc, collected, k8s_state, last_send, agent_hist>>
    /\ UNCHANGED brainVars

run_loop == Collect \/ ClusterState \/ Send \/ Sleep

(***************************************************************************)
(* The state machine.                                                      *)
(***************************************************************************)
NoEvent == Event(NoAttrs, "", "", EmptyStr, FALSE)
NoResult == [status |-> 0, effects |-> NoEffects]
NoPrev == [same |-> FALSE, landed |-> FALSE, puts |-> <<>>, keys |-> {}]

Init ==
    /\ table = {}
    /\ logs_table = {}
    /\ traces_table = {}
    /\ telegram \in TelegramConfigs
    /\ event = NoEvent
    /\ env = Env("all", "ok", TRUE)
    /\ result = NoResult
    /\ prev = NoPrev
    /\ nreq = 0
    /\ batch = <<>>
    /\ detected = [ok |-> TRUE, anomalies |-> <<>>, evaluated |-> <<>>]
    /\ AgentInit

\* one invocation of handler, run to its return
Invoke(ev, e) ==
    /\ \E r \in {handler(ev,
                        [metrics |-> table, logs |-> logs_table, traces |-> traces_table],
                        [landed |-> e.landed, http |-> e.http, scan_ok |-> e.scan_ok,
                         telegram |-> telegram])} :
          /\ table' = r.tables.metrics
          /\ logs_table' = r.tables.logs
          /\ traces_table' = r.tables.traces
          /\ result' = [status |-> r.status, effects |-> r.effects]
    /\ event' = ev
    /\ env' = e
    /\ prev' = [same |-> nreq > 0 /\ ev = event,
                landed |-> result.status = 200 /\ ~result.effects.store_error,
                puts |-> result.effects.puts.metrics,
                keys |-> {MetricKey(x) : x \in table}]
    /\ nreq' = nreq + 1
    /\ UNCHANGED <<telegram, batch, detected>>
    /\ UNCHANGED agentVars

\* any request reaches the function
Request ==
    /\ nreq < MaxInvocations
    /\ \E rq \in Requests : Invoke(rq[1], rq[2])

\* a producer posts metrics batches and posts them again
PostMetrics ==
    /\ nreq < MaxRequests
    /\ \E ev \in StoreEvents, e \in StoreEnvs : Invoke(ev, e)

\* detect_anomalies called on a batch
Detect ==
    /\ batch = <<>>
    /\ \E ms \in Batches \ {<<>>} :
          /\ batch' = ms
          /\ detected' = detect_anomalies(ms)
    /\ UNCHANGED <<table, logs_table, traces_table, telegram, event, env, result, prev, nreq>>
    /\ UNCHANGED agentVars

Next == Request
Spec == Init /\ [][Next]_vars

\* the process of SpecStore has no Telegram target
InitStore == Init /\ telegram.bot_token = None
NextStore == PostMetrics
SpecStore == InitStore /\ [][NextStore]_vars

NextDetect == Detect
SpecDetect == Init /\ [][NextDetect]_vars

NextAgent == Collect \/ ClusterState \/ Send \/ Sleep \/ health_check
\* the agent runs next to a central brain that has received nothing yet
InitAgent == Init /\ telegram = [bot_token |-> "token", chat_id |-> "chat"]
SpecAgent == InitAgent /\ [][NextAgent]_vars

(***************************************************************************)
(* Properties.                                                             *)
(***************************************************************************)
Handled == nreq > 0
KeyHeader == Get(event.headers, "x-api-key", None)
Authorized == KeyHeader = API_KEY
NoWrites == result.effects.puts = NoEffects.puts
Keys(tbl) == {MetricKey(x) : x \in tbl}
Range(f) == {f[i] : i \in DOMAIN f}

\* C1: a request whose x-api-key header is missing or differs from the
\* configured API key is answered 403, whatever its path, body and other
\* headers; no put_item is issued to any table, the body is not parsed and
\* neither the detector nor the alert dispatcher runs.
C1_UnauthorizedIs403 ==
    (Handled /\ (KeyHeader = None \/ KeyHeader # API_KEY)) =>
        /\ result.status = 403
        /\ NoWrites
        /\ ~result.effects.parsed
        /\ result.effects.detector = 0
        /\ result.effects.dispatcher = 0
        /\ result.effects.posts = <<>>

\* a wrong key on a well-formed metrics request that would raise an alert
C1_Witness ==
    /\ Handled
    /\ KeyHeader = "wrong-key"
    /\ event.rawPath = "/v1/metrics"
    /\ event.body = Body(<<>>, MetricsOutlier)
    /\ result.status = 403

\* C2 as stated: an empty body on any ingest path (the three OTLP paths or
\* the default path /ingest) is answered 400 regardless of the headers, the
\* x-api-key header included, before any parse attempt.
C2_EmptyBodyIs400 ==
    (Handled /\ IsEmptyStr(event.body)
        /\ event.rawPath \in PinnedPaths \cup {"/ingest"}) =>
        /\ result.status = 400
        /\ ~result.effects.parsed

\* C2 as amended: a request that carries the configured API key and has an
\* empty body on /v1/metrics, /v1/logs or /v1/traces is answered 400
\* regardless of content-encoding and of the base64 flag; nothing is parsed,
\* written, detected or dispatched.
C2_AuthorizedEmptyBodyIs400 ==
    (Handled /\ Authorized /\ IsEmptyStr(event.body) /\ event.rawPath \in PinnedPaths) =>
        /\ result.status = 400
        /\ ~result.effects.parsed
        /\ NoWrites
        /\ result.effects.detector = 0
        /\ result.effects.dispatcher = 0

\* an empty body announced as gzip and base64 on an OTLP path
C2_Witness ==
    /\ Handled /\ Authorized
    /\ IsEmptyStr(event.body)
    /\ event.rawPath = "/v1/logs"
    /\ event.isBase64Encoded
    /\ Get(event.headers, "content-encoding", None) = "gzip"
    /\ result.status = 400

\* C3: delivering the identical metrics request again, after a delivery
\* whose batch landed in the store, leaves the metrics table with exactly
\* the (cluster_id, metric_identifier) keys it had: no duplicate entry.
C3_RedeliveryIdempotent ==
    (prev.same /\ prev.landed) => Keys(table) = prev.keys

\* a batch of two or more records delivered twice, both times stored whole
C3_Witness ==
    /\ prev.same /\ prev.landed
    /\ Len(result.effects.puts.metrics) >= 2
    /\ result.status = 200
    /\ ~result.effects.store_error
    /\ Keys(table) = {MetricKey(x) : x \in Range(result.effects.puts.metrics)}

\* the records of the last two batches with their positions
Placed(puts, b) == {[item |-> puts[i], pos |-> i - 1, batch |-> b] : i \in DOMAIN puts}
Records == Placed(prev.puts, 0) \cup Placed(result.effects.puts.metrics, 1)
SameNameInstanceTime(a, b) ==
    /\ a.item.metric_name = b.item.metric_name
    /\ a.item.instance = b.item.instance
    /\ a.item.timestamp = b.item.timestamp

\* C4 as stated: two metric records with identical label set, metric name
\* and timestamp receive the same identifier, regardless of their position
\* in a batch and of the batch they arrive in.
C4_IdentifierFromContent ==
    \A a, b \in Records :
        (a.item.full_metric = b.item.full_metric /\ a.item.timestamp = b.item.timestamp)
            => a.item.metric_identifier = b.item.metric_identifier

\* C4 as amended: the identifier is a function of the metric name, the
\* instance label, the timestamp and the position of the record in its
\* batch: two records that agree on name, instance and timestamp receive the
\* same identifier exactly when they are at the same position, whichever
\* batches they arrive in and whatever their other labels and values.
C4_IdentifierFromPosition ==
    \A a, b \in Records :
        SameNameInstanceTime(a, b) =>
            (a.item.metric_identifier = b.item.metric_identifier <=> a.pos = b.pos)

\* two batches: records of different labels at the same position share an
\* identifier, records of the same content at two positions do not
C4_Witness ==
    /\ \E a, b \in Records :
          /\ a.batch # b.batch /\ a.pos = b.pos
          /\ SameNameInstanceTime(a, b)
          /\ a.item.full_metric # b.item.full_metric
          /\ a.item.metric_identifier = b.item.metric_identifier
    /\ \E a, b \in Records :
          /\ a.batch = b.batch /\ a.pos # b.pos
          /\ a.item.full_metric = b.item.full_metric
          /\ a.item.timestamp = b.item.timestamp
          /\ a.item.metric_identifier # b.item.metric_identifier

\* C5: two metric records with the same metric name and timestamp whose
\* label sets differ receive different storage keys, in one batch or in two,
\* so that neither overwrites the other.
C5_DifferentLabelsDifferentKeys ==
    \A a, b \in Records :
        (/\ a.item.metric_name = b.item.metric_name
         /\ a.item.timestamp = b.item.timestamp
         /\ a.item.full_metric # b.item.full_metric)
            => MetricKey(a.item) # MetricKey(b.item)

\* C6: the log records stored by one logs request get pairwise distinct keys
\* (cluster_id, timestamp with disambiguator).
C6_LogKeysDistinct ==
    \A i, j \in DOMAIN result.effects.puts.logs :
        i # j => LogKey(result.effects.puts.logs[i]) # LogKey(result.effects.puts.logs[j])

\* C7: when the store write of an authorized, well-formed ingestion request
\* fails for the whole batch, the response is 500.
C7_WholeBatchFailureIs500 ==
    (Handled /\ Authorized /\ result.effects.store_error /\ env.landed = "none")
        => result.status = 500

\* C8: an authorized metrics request that decodes and yields anomalies is
\* answered 200 whether the alert is delivered, meets a network error, gets
\* an error status or fails in any other way inside send_telegram_alert.
C8_AlertNeverChangesOutcome ==
    (Handled /\ Authorized /\ result.effects.anomalies # <<>>) =>
        /\ result.status = 200
        /\ result.effects.dispatcher = 1

\* an alert whose POST fails with an exception that is no httpx.RequestError
C8_Witness ==
    /\ Handled /\ Authorized
    /\ result.effects.anomalies # <<>>
    /\ telegram = [bot_token |-> "token", chat_id |-> "chat"]
    /\ env.http \in {"status_error", "other_error"}
    /\ Len(result.effects.posts) = 1
    /\ result.status = 200

\* the decoding of the body of the last event fails in one of its steps
DecodeFails ==
    LET decoded == DecodeBody(event.body, event.isBase64Encoded)
        gzipped == Get(event.headers, "content-encoding", None) = "gzip"
        body_bytes == IF gzipped THEN Decompress(decoded.bytes) ELSE decoded
        kind == CASE event.rawPath = "/v1/metrics" -> "metrics"
                  [] event.rawPath = "/v1/logs" -> "logs"
                  [] OTHER -> "traces"
    IN \/ ~decoded.ok
       \/ ~body_bytes.ok
       \/ ~ParseFromString(body_bytes.bytes, kind).ok

\* C9: an authorized request on /v1/metrics, /v1/logs or /v1/traces whose
\* non-empty body cannot be decoded (base64, gzip or protobuf) is answered
\* 400, and nothing is written, detected or dispatched.
C9_UndecodableIs400 ==
    (Handled /\ Authorized /\ event.rawPath \in PinnedPaths
        /\ ~IsEmptyStr(event.body) /\ DecodeFails) =>
        /\ result.status = 400
        /\ NoWrites
        /\ result.effects.detector = 0
        /\ result.effects.dispatcher = 0

\* what detect_anomalies returns to its caller
Returned == IF detected.ok THEN Range(detected.anomalies) ELSE {}

Called == batch # <<>>
AllNumeric == \A i \in DOMAIN batch : batch[i].value[2].numeric
GroupNames == {Get(batch[i].metric, "__name__", "unknown") : i \in DOMAIN batch}

\* the values of the samples named name, in the order of the batch
GroupValues(name) ==
    LET g == SelectSeq(batch, LAMBDA m : Get(m.metric, "__name__", "unknown") = name)
    IN [i \in 1..Len(g) |-> g[i].value[2].n]

\* twice the median and four times the median absolute deviation of a group
GroupMedian2(name) == Median2(GroupValues(name))
GroupMad4(name) ==
    LET values == GroupValues(name)
    IN Median2([i \in 1..Len(values) |-> Abs(2 * values[i] - GroupMedian2(name))])

HasTotalSuffix(name) ==
    Len(name) >= 6 /\ SubSeq(name, Len(name) - 5, Len(name)) = "_total"

\* the samples named name with value v, and the anomalies reported for them
SampleCount(name, v) ==
    Cardinality({i \in DOMAIN batch :
        Get(batch[i].metric, "__name__", "unknown") = name /\ batch[i].value[2].n = v})
ReportedCount(name, v) ==
    Cardinality({i \in DOMAIN detected.anomalies :
        detected.anomalies[i].metric_name = name /\ detected.anomalies[i].value = v})
ReportedFor(name) ==
    {i \in DOMAIN detected.anomalies : detected.anomalies[i].metric_name = name}

\* |0.6745 * (v - median) / MAD| > 3.5 with median = median2 / 2 and
\* MAD = mad4 / 4, both sides multiplied by 10000 * mad4 / 10
ScoreAboveThreshold(v, median2, mad4) == 1349 * Abs(2 * v - median2) > 3500 * mad4

\* C11: in every group that is not skipped (name not ending in _total, at
\* least 3 samples, MAD not 0) a sample is reported if and only if
\* |0.6745 * (value - median) / MAD| > 3.5, with exactly one Anomaly per
\* flagged sample; the values 10, 11, 9, 10, 200 of cpu_pct flag the sample
\* 200 and none of the other four.
C11_FlaggedIffScoreAboveThreshold ==
    (Called /\ AllNumeric) =>
        /\ detected.ok
        /\ \A name \in GroupNames :
              (/\ ~HasTotalSuffix(name)
               /\ Len(GroupValues(name)) >= 3
               /\ GroupMad4(name) # 0)
                  => \A v \in Range(GroupValues(name)) :
                        ReportedCount(name, v) =
                            IF ScoreAboveThreshold(v, GroupMedian2(name), GroupMad4(name))
                            THEN SampleCount(name, v) ELSE 0
        /\ batch = CpuOutlier =>
              [i \in DOMAIN detected.anomalies |-> detected.anomalies[i].value] = <<200>>

\* the scenario 10, 11, 9, 10, 200: median 10, MAD 1, one anomaly, the 200
C11_Witness ==
    /\ batch = CpuOutlier
    /\ GroupMedian2("cpu_pct") = 20
    /\ GroupMad4("cpu_pct") = 4
    /\ Len(detected.anomalies) = 1
    /\ detected.anomalies[1].value = 200
    /\ detected.anomalies[1].metric_name = "cpu_pct"

\* C12: a group whose median absolute deviation is 0 yields no anomaly: the
\* groups of 3 or more identical values and the groups where more than half
\* of the values coincide, such as 1, 1, 1, 1, 50.
C12_ZeroMADNoAnomalies ==
    (Called /\ AllNumeric) =>
        \A name \in GroupNames : GroupMad4(name) = 0 => ReportedFor(name) = {}

\* the scenario 1, 1, 1, 1, 50: median 1, MAD 0, nothing reported
C12_Witness ==
    /\ batch = CpuDegenerate
    /\ GroupMedian2("cpu_pct") = 2
    /\ GroupMad4("cpu_pct") = 0
    /\ detected.ok
    /\ detected.anomalies = <<>>

\* C13: detect_anomalies returns no Anomaly whose metric_name ends with
\* _total, whatever the values of that group and the other groups of the
\* batch.
C13_CountersNeverReported ==
    \A i \in DOMAIN detected.anomalies : ~HasTotalSuffix(detected.anomalies[i].metric_name)

\* a counter with the outlier 200 next to a gauge with the same values: the
\* gauge is reported, the counter is not
C13_Witness ==
    /\ batch = Mixed
    /\ SampleCount("req_total", 200) = 1
    /\ detected.ok
    /\ ReportedCount("cpu_pct", 200) = 1
    /\ ReportedFor("req_total") = {}

\* C14: a group with 2 or fewer samples contributes no anomaly to the
\* result, regardless of its values.
C14_SmallGroupsNoAnomalies ==
    \A name \in GroupNames : Len(GroupValues(name)) <= 2 => ReportedFor(name) = {}

\* a group of the two samples 1 and 900 after a group that is reported
C14_Witness ==
    /\ GroupValues("mem_pct") = <<1, 900>>
    /\ detected.ok
    /\ ReportedFor("cpu_pct") # {}
    /\ ReportedFor("mem_pct") = {}

(***************************************************************************)
(* Properties of the order of the steps of one invocation.                 *)
(***************************************************************************)
StepOrder == <<"decode", "store", "detect", "alert", "response">>
StepRank(step) == CHOOSE i \in DOMAIN StepOrder : StepOrder[i] = step
Steps == result.effects.steps
InOrder(steps) == \A i, j \in DOMAIN steps : i < j => StepRank(steps[i]) < StepRank(steps[j])
Configured == telegram.bot_token \notin {None, ""} /\ telegram.chat_id \notin {None, ""}
OnPath(sub) ==
    \E i \in 1..(Len(event.rawPath) - Len(sub) + 1) :
        SubSeq(event.rawPath, i, i + Len(sub) - 1) = sub

\* C15: in every handling of a metrics request the steps occur in the order
\* decode, store write, detection, alert dispatch, response; the dispatcher
\* is invoked if and only if the detector returned a non-empty list, and
\* then once, with one message in one delivery attempt; logs and traces
\* requests never invoke the detector or the dispatcher.
C15_StepOrderAndDispatch ==
    Handled =>
        /\ InOrder(Steps)
        /\ Steps # <<>> /\ Steps[Len(Steps)] = "response"
        /\ (Authorized /\ OnPath("/v1/metrics") /\ result.status = 200) =>
              /\ SubSeq(Steps, 1, 3) = <<"decode", "store", "detect">>
              /\ result.effects.detector = 1
              /\ Steps = IF result.effects.anomalies # <<>> THEN StepOrder
                         ELSE <<"decode", "store", "detect", "response">>
        /\ result.effects.dispatcher = IF result.effects.anomalies # <<>> THEN 1 ELSE 0
        /\ Len(result.effects.posts) <= result.effects.dispatcher
        /\ (result.effects.dispatcher = 1 /\ Configured) =>
              result.effects.posts = <<BuildMessage(result.effects.anomalies)>>
        /\ (OnPath("/v1/logs") \/ OnPath("/v1/traces")) =>
              /\ result.effects.detector = 0
              /\ result.effects.dispatcher = 0
              /\ result.effects.posts = <<>>

\* a metrics request with anomalies in two groups: all five steps, one
\* message that lists both groups
C15_Witness ==
    /\ Handled /\ Authorized /\ Configured
    /\ event.body.msg = MetricsTwoGroups
    /\ Steps = StepOrder
    /\ Len(result.effects.anomalies) = 2
    /\ Len(result.effects.posts) = 1
    /\ Len(result.effects.posts[1]) = 2
    /\ result.status = 200

\* C16: an authorized request with a non-empty body on the default ingest
\* path (/ingest, where the edge agent posts) is decoded by the first
\* dialect of the chain that parses it, here the OTLP export, which then
\* determines the batch: it is not rejected while a dialect parses; on a
\* pinned path a body that does not parse is terminal.
C16_DefaultPathFallsBackThroughDialects ==
    /\ (Handled /\ Authorized /\ event.rawPath = "/ingest" /\ event.method = "POST"
          /\ ~IsEmptyStr(event.body)
          /\ ParseFromString(event.body, "metrics").ok) =>
          /\ result.status = 200
          /\ result.effects.parsed
          /\ result.effects.puts.metrics =
                MetricItems(_parse_otlp_metrics(event.body.msg.resources))
    /\ (Handled /\ Authorized /\ event.rawPath \in PinnedPaths
          /\ event.body = Body(<<>>, Garbage)) =>
          /\ result.status # 200
          /\ NoWrites

\* C17: when the bot token or the chat id is missing, dispatching a
\* non-empty anomaly list posts nothing to the messaging endpoint, every
\* anomaly of the list is in the log at warning severity, and the request is
\* answered 200.
C17_NoTargetLogsAndSucceeds ==
    (Handled /\ Authorized /\ result.effects.anomalies # <<>> /\ ~Configured) =>
        /\ result.effects.dispatcher = 1
        /\ result.effects.posts = <<>>
        /\ \A i \in DOMAIN result.effects.anomalies :
              \E j \in DOMAIN result.effects.log :
                  result.effects.log[j] = <<"warning", result.effects.anomalies[i]>>
        /\ result.status = 200

\* two anomalies, the chat id set and the bot token not, an endpoint that
\* would fail
C17_Witness ==
    /\ Handled /\ Authorized
    /\ telegram = [bot_token |-> None, chat_id |-> "chat"]
    /\ env.http = "other_error"
    /\ Len(result.effects.anomalies) = 2
    /\ result.effects.dispatcher = 1
    /\ result.effects.posts = <<>>
    /\ Len(result.effects.log) = 3
    /\ result.status = 200

(***************************************************************************)
(* Properties of the partition key.  The records a request carries are     *)
(* read off its body, in the order the parser visits them, each with its   *)
(* own attributes and those of its resource.                               *)
(***************************************************************************)
RECURSIVE Flatten(_)
Flatten(seqs) == IF seqs = <<>> THEN <<>> ELSE Head(seqs) \o Flatten(Tail(seqs))

SentMetrics ==
    Flatten([r \in DOMAIN event.body.msg.resources |->
        LET res == event.body.msg.resources[r]
        IN Flatten([sc \in DOMAIN res.scopes |->
               Flatten([k \in DOMAIN res.scopes[sc] |->
                   LET dps == IF res.scopes[sc][k].data \in {"gauge", "sum"}
                              THEN res.scopes[sc][k].data_points ELSE <<>>
                   IN [d \in DOMAIN dps |->
                          [own |-> dps[d].attributes, resource |-> res.attributes]]])])])

SentLogs ==
    Flatten([r \in DOMAIN event.body.msg.resources |->
        LET res == event.body.msg.resources[r]
        IN Flatten([sc \in DOMAIN res.scopes |->
               [d \in DOMAIN res.scopes[sc] |->
                   [own |-> res.attributes, resource |-> res.attributes]]])])

StoredMetrics == result.effects.puts.metrics
StoredLogs == result.effects.puts.logs

\* the partition key as the claim states it
ClaimedClusterId(rec) ==
    IF "cluster.id" \in DOMAIN rec.own THEN rec.own["cluster.id"]
    ELSE IF "service.name" \in DOMAIN rec.resource THEN rec.resource["service.name"]
    ELSE "unknown"

\* the partition key of a metric record and of a log record
MetricPartition(rec) ==
    IF "cluster.id" \in DOMAIN rec.own THEN rec.own["cluster.id"]
    ELSE IF "job" \in DOMAIN rec.own THEN rec.own["job"]
    ELSE IF "service.name" \in DOMAIN rec.resource THEN rec.resource["service.name"]
    ELSE "unknown_job"
LogPartition(rec) ==
    IF "cluster.id" \in DOMAIN rec.own THEN rec.own["cluster.id"]
    ELSE IF "service.name" \in DOMAIN rec.resource THEN rec.resource["service.name"]
    ELSE "unknown_cluster"

\* C18 as stated: every stored record's partition key is the record's own
\* cluster.id label when present, otherwise its service name, otherwise the
\* literal "unknown"; each record of a batch is stored under its own.
C18_PartitionKeyOrUnknown ==
    /\ StoredMetrics # <<>> =>
          /\ Len(StoredMetrics) = Len(SentMetrics)
          /\ \A i \in DOMAIN StoredMetrics :
                StoredMetrics[i].cluster_id = ClaimedClusterId(SentMetrics[i])
    /\ StoredLogs # <<>> =>
          /\ Len(StoredLogs) = Len(SentLogs)
          /\ \A i \in DOMAIN StoredLogs :
                StoredLogs[i].cluster_id = ClaimedClusterId(SentLogs[i])

\* C18 as amended: the partition key of a stored metric record is its own
\* cluster.id label when present, otherwise its job label (its own job
\* attribute when present, otherwise the service.name of its resource,
\* otherwise "unknown_job"); that of a stored log record is the cluster.id
\* of its resource when present, otherwise the service.name of its
\* resource, otherwise "unknown_cluster"; each record of a batch is stored
\* under its own identifier.
C18_PartitionKeyOrSentinel ==
    /\ StoredMetrics # <<>> =>
          /\ Len(StoredMetrics) = Len(SentMetrics)
          /\ \A i \in DOMAIN StoredMetrics :
                StoredMetrics[i].cluster_id = MetricPartition(SentMetrics[i])
    /\ StoredLogs # <<>> =>
          /\ Len(StoredLogs) = Len(SentLogs)
          /\ \A i \in DOMAIN StoredLogs :
                StoredLogs[i].cluster_id = LogPartition(SentLogs[i])

\* one metrics batch of a resource without service.name: the record that
\* names its cluster is stored under it (c1), the others under unknown_job
C18_Witness ==
    /\ Handled /\ Authorized
    /\ event.body.msg = MetricsQuiet
    /\ result.status = 200 /\ ~result.effects.store_error
    /\ {x.cluster_id : x \in Range(StoredMetrics)} = {"c1", "unknown_job"}
    /\ {x.cluster_id : x \in table} = {"c1", "unknown_job"}
    /\ \E i \in DOMAIN StoredMetrics :
          /\ "cluster.id" \in DOMAIN SentMetrics[i].own
          /\ StoredMetrics[i].cluster_id = "c1"

(***************************************************************************)
(* Properties of the edge agent.                                           *)
(***************************************************************************)
\* C19: is_healthy starts true, becomes false the first time
\* collect_metrics fails and is never set back to true: after one failed
\* collection /health answers 503 ever after, whatever collections and sends
\* succeed later; the loop keeps running after the failure.
C19_HealthIsOneWayLatch ==
    /\ is_healthy <=> agent_hist.failures = 0
    /\ health # NoAnswer =>
          health.status = IF health.failures = 0 THEN 200 ELSE 503
    /\ (agent_hist.failures > 0 /\ agent_hist.iterations < MaxIterations) => ENABLED run_loop

\* a failed collection, then a collection and a send that succeed, then a
\* /health that still answers 503
C19_Witness ==
    /\ agent_hist.failures = 1
    /\ agent_hist.recovered >= 1
    /\ agent_hist.sends >= 1
    /\ collected # <<>>
    /\ last_send
    /\ health = [status |-> 503, failures |-> 1]
    /\ ~is_healthy

====
